---- MODULE Spec2Model ----
(***************************************************************************)
(* Model of tracepy's geoplot class (src/codevp/geoplot.py): mesh          *)
(* generation, lens clipping, cross-section extraction and stitching.      *)
(*                                                                         *)
(* Conventions.  The surface list and the list of clouds are indexed from  *)
(* 0 as in the Python code (functions over 0..n-1); a cloud and a curve    *)
(* are sequences, sample k of the model being row k-1 of the numpy array.  *)
(* A float is a record [nan, v]: v is an integer unless nan is TRUE.       *)
(* Coordinates are integers: a surface's Diam is a multiple of             *)
(* 2*(GridRes-1), so that every value of the linspace is an integer, and   *)
(* the vertex positions P lie on the z axis, so that the distance between  *)
(* two of them is an integer.                                              *)
(***************************************************************************)
EXTENDS Integers, Sequences, FiniteSets

VARIABLES
    surfaces,     \* self.surfaces: 0..n-1 -> surface record
    surfpoints,   \* self.surfpoints: 0..n-1 -> cloud (sequence of [x, y, z])
    pc,           \* "idle", or "loop" inside plot_surfaces
    entry,        \* the method called last: "plotxz", "plotyz", "plot2d" or "none"
    axes,         \* the axes argument of the running plot_surfaces
    todo,         \* the passes plot2d still has to run after this one
    idx,          \* the loop index of plot_surfaces
    lens_check,   \* self.lens_check
    start,        \* self.start (None or a 2D point)
    end,          \* self.end (None until first stored)
    log,          \* per surface of the running/last pass: what the iteration did
    clipCalled,   \* the idx arguments clip_lens received in the running/last pass
    lastClip,     \* idx argument of the clip_lens call made by the last step, or -1
    clipped,      \* 0..n-2 -> all sample indices clip_lens(j) ever selected
    err           \* the last entry call ended with an uncaught IndexError

vars == <<surfaces, surfpoints, pc, entry, axes, todo, idx, lens_check, start, end,
          log, clipCalled, lastClip, clipped, err>>

(***************************************************************************)
(* Bounds of the model.                                                    *)
(***************************************************************************)
GridRes == 2
MaxSurf == 3
MaxLensSurf == 4
MaxChainSurf == 5
MaxTiltSurf == 2
MaxPairSurf == 3

(***************************************************************************)
(* Floats with not-a-number.                                               *)
(***************************************************************************)
NaN == [nan |-> TRUE, v |-> 0]
Num(n) == [nan |-> FALSE, v |-> n]
None == <<>>

nan_to_num(f) == IF f.nan THEN 0 ELSE f.v

FAdd(a, b) == IF a.nan \/ b.nan THEN NaN ELSE Num(a.v + b.v)
FSub(a, b) == IF a.nan \/ b.nan THEN NaN ELSE Num(a.v - b.v)
FSquare(a) == IF a.nan THEN NaN ELSE Num(a.v * a.v)
\* IEEE comparisons: any comparison with a NaN is false
FLeq(a, b) == ~a.nan /\ ~b.nan /\ a.v <= b.v
FLt(a, b) == ~a.nan /\ ~b.nan /\ a.v < b.v
FEq(a, b) == ~a.nan /\ ~b.nan /\ a.v = b.v

\* the exact square root of a perfect square
Isqrt(n) == CHOOSE r \in 0..n : r * r = n

(***************************************************************************)
(* Surfaces.  geometry(surf) is a collaborator outside this file; a        *)
(* surface is the record of the fields geoplot reads.  D is in units of    *)
(* pi/2, about the z axis; R is the pose the collaborator derives from D   *)
(* (the number of quarter turns); P is the vertex position.                *)
(***************************************************************************)
FullDiam == 2 * (GridRes - 1)

Surf(inter, Diam, c, D, bounded) ==
    [inter |-> inter, Diam |-> Diam, c |-> c, diam |-> 0,
     D |-> <<0, 0, D>>, R |-> D, bounded |-> bounded, P |-> <<0, 0, 0>>]

FlatRefr == Surf("refraction", FullDiam, 0, 0, FALSE)
TiltRefr == Surf("refraction", FullDiam, 0, 1, FALSE)
ConicRefr == Surf("refraction", FullDiam, 1, 0, TRUE)
FlippedRefr == Surf("refraction", FullDiam, 0, 2, FALSE)
PointRefr == Surf("refraction", 0, 0, 0, FALSE)
FlatStop == Surf("stop", FullDiam, 0, 0, FALSE)

\* the families of systems the specifications below start from
ClipCatalog == {FlatRefr, ConicRefr, FlatStop}
LensCatalog == {FlatRefr, FlippedRefr, PointRefr, FlatStop}
ChainCatalog == {FlatRefr, FlatStop}
TiltCatalog == {FlatRefr, TiltRefr, FlatStop}
PairCatalog == {FlatRefr, ConicRefr}
Gaps == {0, 2}
LensGaps == {2}

\* surface.get_surface_plot: the height at (x, y); not-a-number outside the
\* domain of a bounded conic
get_surface_plot(surf, x, y) ==
    IF surf.c = 0 THEN Num(0)
    ELSE IF surf.bounded /\ 4 * (x * x + y * y) > surf.Diam * surf.Diam THEN NaN
    ELSE Num(surf.c * (x * x + y * y))

\* np.linspace(lo, hi, n)
linspace(lo, hi, n) == [i \in 1..n |-> lo + ((i - 1) * (hi - lo)) \div (n - 1)]

\* x_points and y_points of gen_points: the raveled meshgrid(linspace,
\* -linspace), then the cross-hair along x at y = 0, then the cross-hair
\* along y at x = 0 (np.append flattens and concatenates)
x_points(surf) ==
    LET bound == surf.Diam \div 2
        ls == linspace(-bound, bound, GridRes)
    IN  [j \in 1..(GridRes * GridRes) |-> ls[((j - 1) % GridRes) + 1]]
            \o ls \o [j \in 1..GridRes |-> 0]

y_points(surf) ==
    LET bound == surf.Diam \div 2
        ls == linspace(-bound, bound, GridRes)
    IN  [j \in 1..(GridRes * GridRes) |-> -ls[((j - 1) \div GridRes) + 1]]
            \o [j \in 1..GridRes |-> 0] \o ls

\* the body of gen_points' loop: the cloud of one surface
MeshPoints(surf) ==
    LET xs == x_points(surf)
        ys == y_points(surf)
    IN  [k \in 1..Len(xs) |->
            [x |-> xs[k], y |-> ys[k], z |-> get_surface_plot(surf, xs[k], ys[k])]]

\* gen_points: one cloud per surface, in the order of the surfaces
gen_points(surfs) == [i \in DOMAIN surfs |-> MeshPoints(surfs[i])]

\* Python's list indexing: a negative index counts from the end
At(list, i) ==
    LET n == Cardinality(DOMAIN list)
    IN  list[IF i < 0 THEN i + n ELSE i]

NSurf == Cardinality(DOMAIN surfaces)

(***************************************************************************)
(* clip_lens                                                               *)
(***************************************************************************)
\* d = sqrt(np.sum(np.square(surf1.P - surf2.P)))
Separation(surf1, surf2) ==
    Isqrt((surf1.P[1] - surf2.P[1]) * (surf1.P[1] - surf2.P[1])
        + (surf1.P[2] - surf2.P[2]) * (surf1.P[2] - surf2.P[2])
        + (surf1.P[3] - surf2.P[3]) * (surf1.P[3] - surf2.P[3]))

\* clipped_idx with the comparison < 0 in place of <= 0
clipped_idx_strict(surfs, sp, i) ==
    LET d == Separation(surfs[i], surfs[i + 1])
        points1 == [k \in DOMAIN sp[i] |-> nan_to_num(sp[i][k].z)]
        points2 == [k \in DOMAIN sp[i + 1] |-> nan_to_num(sp[i + 1][k].z) + d]
    IN  {k \in DOMAIN sp[i] : points2[k] - points1[k] < 0}

\* clipped_idx of clip_lens, as the set of the sample indices it selects
clipped_idx(surfs, sp, i) ==
    LET d == Separation(surfs[i], surfs[i + 1])
        points1 == [k \in DOMAIN sp[i] |-> nan_to_num(sp[i][k].z)]
        points2 == [k \in DOMAIN sp[i + 1] |-> nan_to_num(sp[i + 1][k].z) + d]
    IN  {k \in DOMAIN sp[i] : points2[k] - points1[k] <= 0}

\* the masked rows removed from the cloud instead of overwritten
RECURSIVE MaskZ_drop(_, _)
MaskZ_drop(cloud, mask) ==
    IF cloud = <<>> THEN <<>>
    ELSE LET n == Len(cloud)
             rest == MaskZ_drop(SubSeq(cloud, 1, n - 1), mask)
         IN  IF n \in mask THEN rest ELSE Append(rest, cloud[n])

\* cloud[:,2][mask] = np.nan
MaskZ(cloud, mask) ==
    [k \in DOMAIN cloud |-> IF k \in mask THEN [cloud[k] EXCEPT !.z = NaN] ELSE cloud[k]]

\* clip_lens writing the mask to the first cloud only
clip_lens_first_only(surfs, sp, i) ==
    [sp EXCEPT ![i] = MaskZ(sp[i], clipped_idx(surfs, sp, i))]

\* the clouds after clip_lens(i)
clip_lens(surfs, sp, i) ==
    LET mask == clipped_idx(surfs, sp, i)
    IN  [sp EXCEPT ![i] = MaskZ(sp[i], mask), ![i + 1] = MaskZ(sp[i + 1], mask)]

(***************************************************************************)
(* plot_surfaces: the pieces of one iteration of its loop                  *)
(***************************************************************************)
\* the lens test looking at the current surface only
lens_condition_current_only(surfs, i) ==
    /\ i + 1 < Cardinality(DOMAIN surfs)
    /\ surfs[i].inter = "refraction"

lens_condition(surfs, i) ==
    /\ i + 1 < Cardinality(DOMAIN surfs)
    /\ surfs[i].inter = "refraction"
    /\ surfs[i + 1].inter = "refraction"

\* np.any(np.mod(surf.D/pi, 1) != 0) and surf.c == 0 and surf.diam == 0
Degenerate(surf) ==
    /\ \E j \in 1..3 : surf.D[j] % 2 # 0
    /\ surf.c = 0
    /\ surf.diam = 0

\* column j (0, 1 or 2) of a row of a cloud
Column(pt, j) == IF j = 0 THEN Num(pt.x) ELSE IF j = 1 THEN Num(pt.y) ELSE pt.z

FAbs(a) == IF a.nan THEN NaN ELSE Num(IF a.v < 0 THEN -a.v ELSE a.v)

\* cross_idx: the boolean mask of the cross-section samples
cross_idx(surf, cloud, ax) ==
    LET col == IF Degenerate(surf) THEN ax[2] ELSE 1 - ax[1]
    IN  [k \in DOMAIN cloud |-> FEq(FAbs(Column(cloud[k], col)), Num(0))]

\* the indices a boolean mask selects, ascending
RECURSIVE Where(_, _)
Where(mask, k) ==
    IF k = 0 THEN <<>>
    ELSE IF mask[k] THEN Append(Where(mask, k - 1), k) ELSE Where(mask, k - 1)

\* lab_frame(R, surf, points) of the transforms collaborator: the rotation by
\* R quarter turns about z, then the translation by P.  The rotation is a
\* matrix product, so a not-a-number z makes every coordinate not-a-number.
lab_frame(R, surf, points) ==
    [j \in DOMAIN points |->
        LET p == points[j]
            q == R % 4
            rx == IF q = 0 THEN p.x ELSE IF q = 1 THEN -p.y ELSE IF q = 2 THEN -p.x ELSE p.y
            ry == IF q = 0 THEN p.y ELSE IF q = 1 THEN p.x ELSE IF q = 2 THEN -p.y ELSE -p.x
        IN  IF p.z.nan THEN <<NaN, NaN, NaN>>
            ELSE <<Num(rx + surf.P[1]), Num(ry + surf.P[2]), Num(p.z.v + surf.P[3])>>]

\* np.sum(np.square(a - b)) of two 2D points.  The code takes the square
\* root of it; the root is monotone and maps not-a-number to not-a-number,
\* so dis1 <= dis2 is decided on the squares.
Dis(a, b) == FAdd(FSquare(FSub(a[1], b[1])), FSquare(FSub(a[2], b[2])))

\* np.insert(arr, [i1, i2], [v1, v2]): a negative index counts from the end,
\* each value goes before the element its index names, and of two equal
\* indices the first value comes first
np_insert(arr, i1, i2, v1, v2) ==
    LET n == Len(arr)
        a == IF i1 < 0 THEN i1 + n ELSE i1
        b == IF i2 < 0 THEN i2 + n ELSE i2
        pa == IF a <= b THEN a ELSE a + 1
        pb == IF a <= b THEN b + 1 ELSE b
    IN  [j \in 1..(n + 2) |->
            IF j - 1 = pa THEN v1
            ELSE IF j - 1 = pb THEN v2
            ELSE arr[j - Cardinality({x \in {pa, pb} : x < j - 1})]]

\* the guard of the stitch branch; surfs[i-1] is Python's lookup, which at
\* i = 0 reads the last surface
stitch_guard(surfs, i, st) ==
    /\ surfs[i].inter = "refraction"
    /\ At(surfs, i - 1).inter = "refraction"
    /\ st # None

\* the stitch branch with the comparison dis1 < dis2 in place of dis1 <= dis2
stitch_strict(FG, st, en) ==
    LET dis1 == Dis(st, FG[1])
        dis2 == Dis(st, FG[Len(FG)])
    IN  IF FLt(dis1, dis2)
        THEN np_insert(FG, 0, -1, st, en)
        ELSE np_insert(FG, -1, 0, st, en)

\* the stitch branch's insertion of self.start and self.end into the curve
stitch(FG, st, en) ==
    LET dis1 == Dis(st, FG[1])
        dis2 == Dis(st, FG[Len(FG)])
    IN  IF FLeq(dis1, dis2)
        THEN np_insert(FG, 0, -1, st, en)
        ELSE np_insert(FG, -1, 0, st, en)

\* lines 61-68 of one iteration: the indices cross_idx selects in the cloud
selected(surf, cloud, ax) == Where(cross_idx(surf, cloud, ax), Len(cloud))

\* lines 66-68: the selected points in the lab frame, as the curve (F, G)
cross_curve(surf, cloud, sel, ax) ==
    LET points == lab_frame(surf.R, surf, [j \in 1..Len(sel) |-> cloud[sel[j]]])
    IN  [j \in 1..Len(sel) |-> <<points[j][ax[1] + 1], points[j][ax[2] + 1]>>]

\* lines 70-86 of one iteration, given the curve (F, G) of line 68: the
\* stitch state after the body, the curve handed to plt.plot, and whether an
\* IndexError ended the iteration (F[0] of an empty curve)
stitch_and_store(surfs, i, lens, FG, lc, st, en) ==
    LET guard == stitch_guard(surfs, i, st)
        lc1 == IF guard THEN 1 - lc ELSE lc
        ins == guard /\ lc1 = 1
        raise1 == ins /\ Len(FG) = 0
        FG1 == IF ins /\ ~raise1 THEN stitch(FG, st, en) ELSE FG
        raise2 == ~raise1 /\ lens /\ Len(FG1) = 0
        store == lens /\ ~raise1 /\ ~raise2
    IN  [lens_check |-> lc1,
         start |-> IF store THEN FG1[1] ELSE st,
         end |-> IF store THEN FG1[Len(FG1)] ELSE en,
         raised |-> raise1 \/ raise2,
         guard |-> guard,
         inserted |-> ins /\ ~raise1,
         curve |-> IF raise1 \/ raise2 THEN <<>> ELSE FG1]

(***************************************************************************)
(* The state machine                                                       *)
(***************************************************************************)
\* the surfaces of a system: n descriptors of the catalog, placed along the
\* z axis at the given gaps
Place(descr, gaps) ==
    [i \in DOMAIN descr |->
        [descr[i] EXCEPT !.P = <<0, 0, IF i = 0 THEN 0 ELSE gaps[i]>>]]

RECURSIVE Cumulate(_, _)
Cumulate(gaps, i) == IF i = 0 THEN 0 ELSE gaps[i] + Cumulate(gaps, i - 1)

\* __init__: the surfaces, and the clouds gen_points makes of them
InitWith(catalog, gapSet, maxSurf) ==
    /\ \E n \in 1..maxSurf :
        \E descr \in [0..(n - 1) -> catalog] :
            \E gaps \in [1..(n - 1) -> gapSet] :
                surfaces = Place(descr, [i \in 1..(n - 1) |-> Cumulate(gaps, i)])
    /\ surfpoints = gen_points(surfaces)
    /\ pc = "idle"
    /\ entry = "none"
    /\ axes = <<0, 2>>
    /\ todo = <<>>
    /\ idx = 0
    /\ lens_check = 0
    /\ start = None
    /\ end = None
    /\ log = <<>>
    /\ clipCalled = {}
    /\ lastClip = -1
    /\ clipped = [j \in 0..(NSurf - 2) |-> {}]
    /\ err = FALSE

Init == InitWith(ClipCatalog, Gaps, MaxSurf)
InitLens == InitWith(LensCatalog, LensGaps, MaxLensSurf)
InitChain == InitWith(ChainCatalog, LensGaps, MaxChainSurf)
InitTilt == InitWith(TiltCatalog, Gaps, MaxTiltSurf)
InitPair == InitWith(PairCatalog, Gaps, MaxPairSurf)

\* the first two lines of plot_surfaces, entered with the given axes
BeginPass(name, ax, rest) ==
    /\ pc' = "loop"
    /\ entry' = name
    /\ axes' = ax
    /\ todo' = rest
    /\ idx' = 0
    /\ lens_check' = 0
    /\ start' = None
    /\ log' = <<>>
    /\ clipCalled' = {}
    /\ lastClip' = -1
    /\ err' = FALSE
    /\ UNCHANGED <<surfaces, surfpoints, end, clipped>>

\* plotxz(): plot_rays changes nothing of the instance; plot_surfaces([0, 2])
PlotXZ == pc = "idle" /\ BeginPass("plotxz", <<0, 2>>, <<>>)

\* plotyz(): plot_surfaces([1, 2])
PlotYZ == pc = "idle" /\ BeginPass("plotyz", <<1, 2>>, <<>>)

\* plot2d(): plotxz(both=True), then plotyz(both=True)
Plot2D == pc = "idle" /\ BeginPass("plot2d", <<0, 2>>, << <<1, 2>> >>)

\* a direct call clip_lens(i) with both clouds present
ClipLensCall(i) ==
    /\ pc = "idle"
    /\ i \in 0..(NSurf - 2)
    /\ surfpoints' = clip_lens(surfaces, surfpoints, i)
    /\ clipped' = [clipped EXCEPT ![i] = @ \cup clipped_idx(surfaces, surfpoints, i)]
    /\ lastClip' = i
    /\ UNCHANGED <<surfaces, pc, entry, axes, todo, idx, lens_check, start, end,
                   log, clipCalled, err>>

\* one iteration of the loop of plot_surfaces
LoopBody ==
    /\ pc = "loop"
    /\ idx < NSurf
    /\ \E lens \in {lens_condition(surfaces, idx)} :
       \E sp1 \in {IF lens THEN clip_lens(surfaces, surfpoints, idx) ELSE surfpoints} :
       \E sel \in {selected(surfaces[idx], sp1[idx], axes)} :
       \E FG \in {cross_curve(surfaces[idx], sp1[idx], sel, axes)} :
       \E it \in {stitch_and_store(surfaces, idx, lens, FG, lens_check, start, end)} :
           /\ surfpoints' = sp1
           /\ lens_check' = it.lens_check
           /\ start' = it.start
           /\ end' = it.end
           /\ log' = [j \in (DOMAIN log) \cup {idx} |->
                         IF j = idx
                         THEN [sel |-> sel, raw |-> FG, guard |-> it.guard,
                               inserted |-> it.inserted,
                               s |-> IF it.inserted THEN start ELSE None,
                               e |-> IF it.inserted THEN end ELSE None,
                               curve |-> it.curve, drawn |-> ~it.raised]
                         ELSE log[j]]
           /\ clipCalled' = IF lens THEN clipCalled \cup {idx} ELSE clipCalled
           /\ lastClip' = IF lens THEN idx ELSE -1
           /\ clipped' = IF lens
                         THEN [clipped EXCEPT
                                 ![idx] = @ \cup clipped_idx(surfaces, surfpoints, idx)]
                         ELSE clipped
           /\ IF it.raised
              THEN pc' = "idle" /\ err' = TRUE /\ todo' = <<>> /\ idx' = idx
              ELSE pc' = "loop" /\ err' = FALSE /\ todo' = todo /\ idx' = idx + 1
    /\ UNCHANGED <<surfaces, entry, axes>>

\* the loop is over: plot_surfaces returns, and plot2d goes on to plotyz
PassReturn ==
    /\ pc = "loop"
    /\ idx = NSurf
    /\ IF todo # <<>>
       THEN /\ pc' = "loop"
            /\ axes' = Head(todo)
            /\ todo' = Tail(todo)
            /\ idx' = 0
            /\ lens_check' = 0
            /\ start' = None
            /\ log' = <<>>
            /\ clipCalled' = {}
            /\ lastClip' = -1
            /\ UNCHANGED <<surfaces, surfpoints, entry, end, clipped, err>>
       ELSE /\ pc' = "idle"
            /\ lastClip' = -1
            /\ UNCHANGED <<surfaces, surfpoints, entry, axes, todo, idx, lens_check,
                           start, end, log, clipCalled, clipped, err>>

Next ==
    \/ PlotXZ
    \/ PlotYZ
    \/ Plot2D
    \/ \E i \in 0..(MaxSurf + MaxLensSurf + MaxChainSurf) : ClipLensCall(i)
    \/ LoopBody
    \/ PassReturn

\* systems of flat and conic refraction surfaces and stops, touching or apart
Spec == Init /\ [][Next]_vars
\* systems of flat refraction surfaces in both orientations, of one of zero
\* diameter, and of stops
SpecLens == InitLens /\ [][Next]_vars
\* longer chains of flat lenses and stops
SpecChain == InitChain /\ [][Next]_vars
\* flat surfaces of both selection branches, touching or apart
SpecTilt == InitTilt /\ [][Next]_vars
\* runs of flat and conic refraction surfaces, touching or apart
SpecPair == InitPair /\ [][Next]_vars

(***************************************************************************)
(* Notions the properties below are stated in                              *)
(***************************************************************************)
Samples == 1..(GridRes * GridRes + 2 * GridRes)

\* the samples of a cloud whose z is not-a-number
NaNSet(cloud) == {k \in DOMAIN cloud : cloud[k].z.nan}

Refracting(i) == surfaces[i].inter = "refraction"

\* the adjacent pairs of refraction surfaces
LensPairs == {i \in DOMAIN surfaces : (i + 1) \in DOMAIN surfaces
                                      /\ Refracting(i) /\ Refracting(i + 1)}

\* the samples whose height the geometry collaborator gave as not-a-number
GeomNaN(i) ==
    {k \in DOMAIN surfpoints[i] :
        get_surface_plot(surfaces[i], surfpoints[i][k].x, surfpoints[i][k].y).nan}

\* the samples clip_lens(j) has selected so far (none for a j it cannot take)
ClippedBy(j) == IF j \in DOMAIN clipped THEN clipped[j] ELSE {}

\* the samples of cloud i that clip_lens has masked
MaskedByClip(i) == ClippedBy(i - 1) \cup ClippedBy(i)

\* a pass of plot_surfaces has just returned, every surface drawn
PassDone ==
    /\ pc = "idle"
    /\ lastClip = -1
    /\ DOMAIN log = DOMAIN surfaces
    /\ \A i \in DOMAIN log : log[i].drawn

\* z with not-a-number read as 0, as the clipper compares it
Zeroed(f) == IF f.nan THEN 0 ELSE f.v

\* the Euclidean distance of the vertices of surfaces i and i+1
VertexDistance(i) ==
    LET a == surfaces[i].P
        b == surfaces[i + 1].P
        sq == (a[1] - b[1]) * (a[1] - b[1]) + (a[2] - b[2]) * (a[2] - b[2])
              + (a[3] - b[3]) * (a[3] - b[3])
    IN  CHOOSE d \in 0..sq : d * d = sq

\* what a step that calls clip_lens(i) does to the clouds, by C1
C1_ClipStep ==
    lastClip' # -1 =>
        LET i == lastClip'
            d == VertexDistance(i)
            M == {k \in Samples :
                    (Zeroed(surfpoints[i + 1][k].z) + d) - Zeroed(surfpoints[i][k].z) <= 0}
            flat == \A j \in {i, i + 1} : \A k \in Samples : surfpoints[j][k].z = Num(0)
        IN  /\ surfpoints' =
                  [j \in DOMAIN surfpoints |->
                      IF j \in {i, i + 1}
                      THEN [k \in DOMAIN surfpoints[j] |->
                              IF k \in M
                              THEN [x |-> surfpoints[j][k].x, y |-> surfpoints[j][k].y,
                                    z |-> NaN]
                              ELSE surfpoints[j][k]]
                      ELSE surfpoints[j]]
            /\ (flat /\ d = 2) => surfpoints' = surfpoints
            /\ (flat /\ d = 0) =>
                  \A j \in {i, i + 1} : \A k \in Samples : surfpoints'[j][k].z.nan

(***************************************************************************)
(* C1: a call clip_lens(i) sets z to not-a-number in clouds i and i+1 at   *)
(* exactly the samples k with (z2[k] + d) - z1[k] <= 0 (not-a-number read  *)
(* as 0, d the distance of the two vertices) and changes nothing else of   *)
(* any cloud; with d = 2 and all heights 0 it masks nothing, with d = 0    *)
(* and all heights 0 it masks every sample of both clouds.                 *)
(***************************************************************************)
C1_ClipContract == [][C1_ClipStep]_vars

\* a clip that masked some samples of its pair and left others
C1_Witness ==
    /\ lastClip # -1
    /\ clipped[lastClip] # {}
    /\ \E k \in Samples : ~surfpoints[lastClip][k].z.nan
    /\ \E k \in Samples : ~surfpoints[lastClip + 1][k].z.nan

(***************************************************************************)
(* C2, as claimed: after a pass, the clouds of every adjacent pair of      *)
(* refraction surfaces have the same set of not-a-number samples.          *)
(***************************************************************************)
C2_SameNaNSets ==
    PassDone =>
        \A i \in LensPairs : NaNSet(surfpoints[i]) = NaNSet(surfpoints[i + 1])

(***************************************************************************)
(* C2, amended: after a pass, for every adjacent pair (i, i+1) of          *)
(* refraction surfaces clip_lens(i) was called, every sample it selected   *)
(* is not-a-number in both clouds, and the two clouds' not-a-number sets   *)
(* differ at most at samples the geometry gave as not-a-number or that the *)
(* clip of a neighbouring pair, (i-1, i) or (i+1, i+2), masked.            *)
(***************************************************************************)
C2_ClipSymmetry ==
    PassDone =>
        \A i \in LensPairs :
            LET n1 == NaNSet(surfpoints[i])
                n2 == NaNSet(surfpoints[i + 1])
            IN  /\ i \in clipCalled
                /\ clipped[i] \subseteq (n1 \cap n2)
                /\ ((n1 \ n2) \cup (n2 \ n1)) \subseteq
                      (GeomNaN(i) \cup GeomNaN(i + 1)
                       \cup ClippedBy(i - 1) \cup ClippedBy(i + 1))

\* a pass that masked part of a lens whose clouds end with different
\* not-a-number sets
C2_Witness ==
    /\ PassDone
    /\ \E i \in LensPairs :
        /\ clipped[i] # {}
        /\ NaNSet(surfpoints[i]) # NaNSet(surfpoints[i + 1])

(***************************************************************************)
(* C8: every cloud has GridRes*GridRes + 2*GridRes samples, in the order   *)
(* mesh generation gave them, in every reachable state; clipping only      *)
(* overwrites z-values with not-a-number.                                  *)
(***************************************************************************)
C8_SampleCount ==
    \A i \in DOMAIN surfpoints :
        LET xs == x_points(surfaces[i])
            ys == y_points(surfaces[i])
        IN  /\ DOMAIN surfpoints[i] = 1..(GridRes * GridRes + 2 * GridRes)
            /\ \A k \in DOMAIN surfpoints[i] :
                /\ surfpoints[i][k].x = xs[k]
                /\ surfpoints[i][k].y = ys[k]
                /\ \/ surfpoints[i][k].z.nan
                   \/ surfpoints[i][k].z = get_surface_plot(surfaces[i], xs[k], ys[k])

\* a completed pass of plot2d that has masked samples
C8_Witness ==
    /\ PassDone
    /\ entry = "plot2d"
    /\ \E i \in DOMAIN clipped : clipped[i] # {}

\* no entry call has ended in an uncaught error
C3_NoError == ~err

\* no sample clip_lens has masked is selected into a curve of the running pass
C3_NoMaskedPoint ==
    pc = "loop" =>
        \A i \in DOMAIN log :
            \A j \in 1..Len(log[i].sel) : log[i].sel[j] \notin MaskedByClip(i)

(***************************************************************************)
(* C3, as claimed: during a pass no sample that clip_lens has masked is    *)
(* among the points of the curve emitted for its surface, whichever the    *)
(* viewing plane and the selection branch (so the curves of a fully masked *)
(* pair are empty), and no pass ends in an error.                          *)
(***************************************************************************)
C3_MaskedExcluded == C3_NoError /\ C3_NoMaskedPoint

\* a step of the second pass of plot2d leaves every not-a-number set as it is
C10_SecondPassStep ==
    (pc = "loop" /\ entry = "plot2d" /\ axes = <<1, 2>>) =>
        \A i \in DOMAIN surfpoints :
            NaNSet(surfpoints'[i]) = NaNSet(surfpoints[i])

(***************************************************************************)
(* C10, as claimed: the second pass of plot2d, which runs on the clouds    *)
(* the first pass left, changes no cloud's set of not-a-number samples.    *)
(***************************************************************************)
C10_SecondPassIdempotent == [][C10_SecondPassStep]_vars

(***************************************************************************)
(* Notions of the stitching properties                                     *)
(***************************************************************************)
\* the surfaces whose curve the running/last pass stitched
Stitched == {i \in DOMAIN log : log[i].inserted}

\* every lens is two consecutive refraction surfaces, and lenses are apart
NoTriple ==
    \A i \in DOMAIN surfaces :
        ~((i + 2) \in DOMAIN surfaces
          /\ Refracting(i) /\ Refracting(i + 1) /\ Refracting(i + 2))

(***************************************************************************)
(* C4, as claimed: when every lens is exactly two consecutive refraction   *)
(* surfaces and lenses are separated by a non-refraction surface, the      *)
(* curve drawn for the second surface of every lens has the endpoints of   *)
(* the first surface's curve inserted into it.                             *)
(***************************************************************************)
C4_EveryLensStitched ==
    NoTriple =>
        \A i \in DOMAIN log :
            (i >= 1 /\ (i - 1) \in LensPairs /\ log[i].drawn) =>
                /\ log[i].inserted
                /\ log[i].s = log[i - 1].curve[1]
                /\ log[i].e = log[i - 1].curve[Len(log[i - 1].curve)]

(***************************************************************************)
(* C5, as claimed: the stitch state is empty when a pass begins, is set    *)
(* once a surface that begins a lens pairing has been processed, and is    *)
(* cleared once the paired surface that consumed it has been drawn.        *)
(***************************************************************************)
C5_StitchLifecycle ==
    pc = "loop" =>
        /\ idx = 0 => (start = None /\ lens_check = 0)
        /\ (idx >= 1 /\ (idx - 1) \in LensPairs) => start # None
        /\ (idx >= 1 /\ (idx - 1) \in Stitched /\ (idx - 1) \notin LensPairs) =>
              start = None

(***************************************************************************)
(* C6: in every pass the guard of the stitch branch holds at surface i     *)
(* exactly when i >= 1 and clip_lens(i-1) was called earlier in the pass;  *)
(* it never holds at index 0, where the lookup i-1 reads the last surface. *)
(***************************************************************************)
C6_GuardIffClipped ==
    /\ \A i \in DOMAIN log : log[i].guard <=> (i >= 1 /\ (i - 1) \in clipCalled)
    /\ 0 \in DOMAIN log => ~log[0].guard

\* a pass over three or more surfaces whose first and last are refraction
\* surfaces and whose second is not, with a lens stitched later on
C6_Witness ==
    /\ NSurf >= 3
    /\ Refracting(0) /\ Refracting(NSurf - 1) /\ ~Refracting(1)
    /\ \E i \in DOMAIN log : log[i].guard

(***************************************************************************)
(* C7: in a stitched curve the stored start point is next to the endpoint  *)
(* of the unstitched curve that is nearer to it and the stored end point   *)
(* next to the other endpoint; at equal distances the stored start is at   *)
(* the first-point end.                                                    *)
(***************************************************************************)
C7_NearerEnd ==
    \A i \in Stitched :
        LET raw == log[i].raw
            cur == log[i].curve
            n == Len(raw)
            dis1 == Dis(log[i].s, raw[1])
            dis2 == Dis(log[i].s, raw[n])
            startFirst == /\ cur[1] = log[i].s
                          /\ cur[n + 1] = log[i].e /\ cur[n + 2] = raw[n]
            startLast == /\ cur[n + 1] = log[i].s /\ cur[n + 2] = raw[n]
                         /\ cur[1] = log[i].e /\ cur[2] = raw[1]
        IN  /\ Len(cur) = n + 2
            /\ (FLt(dis1, dis2) \/ FEq(dis1, dis2)) => startFirst
            /\ FLt(dis2, dis1) => startLast

\* a pass that stitched one curve whose last point is the nearer one and
\* another whose two endpoints are equally near
C7_Witness ==
    /\ \E i \in Stitched :
          FLt(Dis(log[i].s, log[i].raw[Len(log[i].raw)]), Dis(log[i].s, log[i].raw[1]))
    /\ \E i \in Stitched :
          FEq(Dis(log[i].s, log[i].raw[Len(log[i].raw)]), Dis(log[i].s, log[i].raw[1]))

(***************************************************************************)
(* C9, as claimed: a stitched curve of n >= 2 unstitched points has n + 2  *)
(* points, the two inserted points are its first and its last point, and   *)
(* the n original points lie between them in their order.                  *)
(***************************************************************************)
C9_InsertedAtEnds ==
    \A i \in Stitched :
        LET raw == log[i].raw
            cur == log[i].curve
            n == Len(raw)
        IN  n >= 2 =>
                /\ Len(cur) = n + 2
                /\ \/ (cur[1] = log[i].s /\ cur[n + 2] = log[i].e)
                   \/ (cur[1] = log[i].e /\ cur[n + 2] = log[i].s)
                /\ SubSeq(cur, 2, n + 1) = raw

====
